---- MODULE Spec2Model ----
(***************************************************************************)
(* Multi-Cloud CI/CT/CD simulator (src/app.py).                            *)
(*                                                                         *)
(* The Streamlit script is re-executed top to bottom on every user         *)
(* interaction.  The session state (st.session_state) and the asset        *)
(* directories under /tmp/ci_ct_cd_sim survive between executions.         *)
(*                                                                         *)
(* Text files are sequences of lexical tokens; substring tests, replace,   *)
(* split and strip work on contiguous token runs.  CSV files are tables    *)
(* of cells, JSON / YAML documents are functions from keys to values.      *)
(* Numbers of the CSV data are in tenths (100.0 is 1000).                  *)
(* Values of the JSON / YAML documents that no check reads ("notes",       *)
(* "bucket") are held as 0 / FALSE.                                        *)
(***************************************************************************)
EXTENDS Integers, Sequences, FiniteSets, TLC

VARIABLES
    cloud,               \* st.session_state.cloud
    demo_key,            \* st.session_state.demo_key
    debug_attempts,      \* st.session_state.debug_attempts
    last_run_logs,       \* st.session_state.last_run_logs
    last_failure,        \* st.session_state.last_failure
    pipeline_completed,  \* st.session_state.pipeline_completed
    running,             \* st.session_state.running
    fs,                  \* the asset directories, one per scenario key
    pc,                  \* position of the script
    idx,                 \* loop variable of the stage loop
    verdict,             \* the last result of check_step_truth and what it saw
    evaluated,           \* stage indices evaluated by the current / last run
    event,               \* the last step taken
    trigger,             \* what requested the current / last run
    selections,          \* number of scenario selections made so far
    hist                 \* history of the session: the latest check at a
                         \* failing stage and the latest run made in the
                         \* reference context since the scenario was
                         \* selected, whether the last step repeated them
                         \* in another context, the
                         \* first scenario mitigated, whether the current or
                         \* last run is the first one since the scenario
                         \* was selected ("yes" until it ends, "ran" until
                         \* the next run starts), whether the scenario had
                         \* been mitigated before it was selected, the
                         \* number of faults of the environment

vars == <<cloud, demo_key, debug_attempts, last_run_logs, last_failure,
          pipeline_completed, running, fs, pc, idx, verdict, evaluated,
          event, trigger, selections, hist>>

-----------------------------------------------------------------------------
(* Bounds of the model *)

MaxSelections == 3

MaxPureMitigations == 2

\* faults of the environment in one session
MaxFaults == 1

\* lines of a configuration file given to the Verifier
MaxEnvLines == 3

-----------------------------------------------------------------------------
(* Static tables *)

CLOUDS == {"AWS", "GCP", "Azure"}

NumSteps == 20

STEPS == 1..NumSteps

MaxAttempts == 2

SCENARIOS ==
    [k \in {"Demo 1", "Demo 2", "Demo 3", "Demo 4",
            "Demo 5", "Demo 6", "Demo 7", "Demo 8"} |->
       CASE k = "Demo 1" -> [type |-> "missing_dependency", failure_step |-> 3,
              mitigation_fix |-> "Appended numpy to requirements.txt and reinstalled deps"]
         [] k = "Demo 2" -> [type |-> "dockerfile_syntax", failure_step |-> 6,
              mitigation_fix |-> "Fixed Dockerfile COPY directive"]
         [] k = "Demo 3" -> [type |-> "env_missing", failure_step |-> 10,
              mitigation_fix |-> "Wrote DB_USER/DB_PASS/DB_HOST to .env (placeholder values)"]
         [] k = "Demo 4" -> [type |-> "null_values", failure_step |-> 12,
              mitigation_fix |-> "Filled NaNs with column means"]
         [] k = "Demo 5" -> [type |-> "high_latency", failure_step |-> 15,
              mitigation_fix |-> "Reduced p90 to 400ms in profile (proxy for tuning)"]
         [] k = "Demo 6" -> [type |-> "public_bucket", failure_step |-> 17,
              mitigation_fix |-> "Set BlockPublicAcls=True / removed public write"]
         [] k = "Demo 7" -> [type |-> "memory_leak", failure_step |-> 19,
              mitigation_fix |-> "Disabled leak flag; cleared buffers"]
         [] k = "Demo 8" -> [type |-> "schema_drift", failure_step |-> 20,
              mitigation_fix |-> "Created target column from label"]]

ScenarioKeys == DOMAIN SCENARIOS

FirstScenario == "Demo 1"

-----------------------------------------------------------------------------
(* Text primitives: Python's `in`, str.replace, str.split, str.strip *)

IsPrefixAt(txt, pat, i) ==
    /\ i + Len(pat) - 1 <= Len(txt)
    /\ \A j \in 1..Len(pat) : txt[i + j - 1] = pat[j]

Contains(txt, pat) ==
    \E i \in 1..(Len(txt) + 1) : IsPrefixAt(txt, pat, i)

\* position of the first occurrence of pat at or after position i, 0 if none
RECURSIVE FindFrom(_, _, _)
FindFrom(txt, pat, i) ==
    IF i + Len(pat) - 1 > Len(txt) THEN 0
    ELSE IF IsPrefixAt(txt, pat, i) THEN i
    ELSE FindFrom(txt, pat, i + 1)

RECURSIVE ReplaceFrom(_, _, _, _)
ReplaceFrom(txt, pat, rep, i) ==
    LET p == FindFrom(txt, pat, i)
    IN  IF p = 0 THEN SubSeq(txt, i, Len(txt))
        ELSE SubSeq(txt, i, p - 1) \o rep
             \o ReplaceFrom(txt, pat, rep, p + Len(pat))

Replace(txt, pat, rep) == ReplaceFrom(txt, pat, rep, 1)

\* txt.split(pat)[1]: the text between the first and the second occurrence
SplitSecond(txt, pat) ==
    LET p == FindFrom(txt, pat, 1)
        s == p + Len(pat)
        q == FindFrom(txt, pat, s)
    IN  IF q = 0 THEN SubSeq(txt, s, Len(txt)) ELSE SubSeq(txt, s, q - 1)

IsSpace(tok) == tok \in {" ", "\n", "  ", "    ", "        "}

RECURSIVE LStrip(_)
LStrip(txt) ==
    IF txt = <<>> THEN <<>>
    ELSE IF IsSpace(Head(txt)) THEN LStrip(Tail(txt)) ELSE txt

RECURSIVE RStrip(_)
RStrip(txt) ==
    IF txt = <<>> THEN <<>>
    ELSE IF IsSpace(txt[Len(txt)]) THEN RStrip(SubSeq(txt, 1, Len(txt) - 1))
    ELSE txt

Strip(txt) == RStrip(LStrip(txt))

-----------------------------------------------------------------------------
(* Tables: pandas.read_csv / DataFrame.to_csv(index=False) *)

NaN == [na |-> TRUE, isnum |-> TRUE, num |-> 0, str |-> ""]

Num(n) == [na |-> FALSE, isnum |-> TRUE, num |-> n, str |-> ""]

Str(s) == [na |-> FALSE, isnum |-> FALSE, num |-> 0, str |-> s]

ColIndex(df, name) ==
    CHOOSE c \in 1..Len(df.columns) : df.columns[c] = name

HasColumn(df, name) == \E c \in 1..Len(df.columns) : df.columns[c] = name

Column(df, c) == [r \in 1..Len(df.rows) |-> df.rows[r][c]]

AnyNa(df) ==
    \E r \in 1..Len(df.rows) : \E c \in 1..Len(df.columns) : df.rows[r][c].na

\* dtype.kind in "biufc": every cell that is present is a number
IsNumericCol(col) == \A r \in 1..Len(col) : col[r].na \/ col[r].isnum

RECURSIVE SumPresent(_, _)
SumPresent(col, r) ==
    IF r = 0 THEN 0
    ELSE SumPresent(col, r - 1) + (IF col[r].na THEN 0 ELSE col[r].num)

CountPresent(col) == Cardinality({r \in 1..Len(col) : ~col[r].na})

\* Series.fillna(Series.mean()); the mean of an all-NaN column is NaN
FillMean(col) ==
    IF CountPresent(col) = 0 THEN col
    ELSE LET m == SumPresent(col, Len(col)) \div CountPresent(col)
         IN  [r \in 1..Len(col) |-> IF col[r].na THEN Num(m) ELSE col[r]]

RECURSIVE FFill(_, _)
FFill(col, r) ==
    IF r = 0 THEN <<>>
    ELSE LET prev == FFill(col, r - 1)
         IN  Append(prev, IF col[r].na /\ r > 1 THEN prev[r - 1] ELSE col[r])

RECURSIVE BFill(_, _)
BFill(col, r) ==
    IF r > Len(col) THEN <<>>
    ELSE LET rest == BFill(col, r + 1)
         IN  <<IF col[r].na /\ rest # <<>> THEN Head(rest) ELSE col[r]>> \o rest

\* fillna(method="ffill").fillna(method="bfill"), as pandas 2.x evaluates it
FillNeighbours(col) == BFill(FFill(col, Len(col)), 1)

FillColumns(df) ==
    LET filled == [c \in 1..Len(df.columns) |->
                     IF IsNumericCol(Column(df, c))
                     THEN FillMean(Column(df, c))
                     ELSE FillNeighbours(Column(df, c))]
    IN  [df EXCEPT !.rows = [r \in 1..Len(df.rows) |->
                               [c \in 1..Len(df.columns) |-> filled[c][r]]]]

AddColumn(df, name, cells) ==
    [columns |-> Append(df.columns, name),
     rows    |-> [r \in 1..Len(df.rows) |-> Append(df.rows[r], cells[r])]]

-----------------------------------------------------------------------------
(* Directories *)

NoFiles == [f \in {} |-> <<>>]

NoDir == [exists |-> FALSE, files |-> NoFiles]

FileExists(dir, f) == dir.exists /\ f \in DOMAIN dir.files

\* write(path, content): makedirs(dirname, exist_ok=True), then rewrite
WriteFile(dir, f, content) ==
    [exists |-> TRUE,
     files  |-> [g \in (DOMAIN dir.files) \cup {f} |->
                   IF g = f THEN content ELSE dir.files[g]]]

AssetsDir(key) == key

\* a file of zero bytes
EmptyFile == <<>>

\* the files read by pd.read_csv, json.load and yaml.safe_load
Structured == {"data.csv", "training.csv", "endpoint_profile.json", "iac.yaml"}

\* the file can be opened and, for a structured file, loaded: of a file of
\* zero bytes read_csv raises EmptyDataError, json.load raises
\* JSONDecodeError, and yaml.safe_load returns None, on which .get and item
\* assignment raise
Loads(dir, f) ==
    /\ FileExists(dir, f)
    /\ f \in Structured => dir.files[f] # EmptyFile

-----------------------------------------------------------------------------
(* generate_assets: the defective baseline of every scenario *)

AppPy(key) ==
    <<"#", " ", "minimal", " ", "app", " ", "entrypoint", " ", "for", " ",
      key, "\n", "def", " ", "predict(x):", " ", "\n", "    ", "return",
      " ", "x">>

BaselineFiles(key) ==
    LET s_type == SCENARIOS[key].type
    IN  CASE s_type = "missing_dependency" ->
               [f \in {"app.py", "model.py", "requirements.txt"} |->
                  CASE f = "app.py" -> AppPy(key)
                    [] f = "model.py" ->
                         <<"import", " ", "numpy", " ", "as", " ", "np", "\n",
                           "\n", "DEF_FLAG", "=", "1", "\n">>
                    [] f = "requirements.txt" ->
                         <<"pandas", "==", "2.2.2", "\n", "#", " ", "numpy",
                           " ", "intentionally", " ", "missing", "\n">>]
          [] s_type = "dockerfile_syntax" ->
               [f \in {"app.py", "Dockerfile", "requirements.txt"} |->
                  CASE f = "app.py" -> AppPy(key)
                    [] f = "Dockerfile" ->
                         <<"FROM", " ", "python:3.11-slim", "\n",
                           "WORKDIR", " ", "/app", "\n",
                           "COPY", ".", "\n",
                           "RUN", " ", "pip", " ", "install", " ", "-r", " ",
                           "requirements.txt", "\n">>
                    [] f = "requirements.txt" ->
                         <<"pandas", "==", "2.2.2", "\n">>]
          [] s_type = "env_missing" ->
               [f \in {"app.py", ".env", "provision.yaml"} |->
                  CASE f = "app.py" -> AppPy(key)
                    [] f = ".env" ->
                         <<"DB_USER", "=", "\n", "#", " ", "DB_PASS", " ",
                           "missing", "\n", "DB_HOST", "=", "\n">>
                    [] f = "provision.yaml" ->
                         <<"service", ":", " ", "nlp-sentiment", "\n",
                           "resources", ":", " ", "test-db", "\n">>]
          [] s_type = "null_values" ->
               [f \in {"app.py", "data.csv"} |->
                  CASE f = "app.py" -> AppPy(key)
                    [] f = "data.csv" ->
                         [columns |-> <<"amount", "merchant">>,
                          rows |-> << <<Num(1000), Str("a")>>,
                                      <<NaN,       Str("b")>>,
                                      <<Num(450),  Str("c")>>,
                                      <<NaN,       Str("d")>> >>]]
          [] s_type = "high_latency" ->
               [f \in {"app.py", "endpoint_profile.json"} |->
                  CASE f = "app.py" -> AppPy(key)
                    [] f = "endpoint_profile.json" ->
                         [k \in {"p90_ms", "notes"} |->
                            IF k = "p90_ms" THEN 1400 ELSE 0]]
          [] s_type = "public_bucket" ->
               [f \in {"app.py", "iac.yaml"} |->
                  CASE f = "app.py" -> AppPy(key)
                    [] f = "iac.yaml" ->
                         [k \in {"bucket", "public_write"} |->
                            IF k = "public_write" THEN TRUE ELSE FALSE]]
          [] s_type = "memory_leak" ->
               [f \in {"app.py", "model.py"} |->
                  CASE f = "app.py" -> AppPy(key)
                    [] f = "model.py" ->
                         <<"\n", "buffer", " ", "=", " ", "[]", "\n",
                           "LEAK_DEMO", " ", "=", " ", "True", "\n",
                           "def", " ", "infer(x):", "\n",
                           "    ", "global", " ", "buffer", "\n",
                           "    ", "if", " ", "LEAK_DEMO", ":", "\n",
                           "        ", "buffer.append(bytes(1024*256))", "  ",
                           "#", " ", "grow", " ", "256KB", " ", "per", " ",
                           "call", "\n",
                           "    ", "return", " ", "x", "\n">>]
          [] s_type = "schema_drift" ->
               [f \in {"app.py", "training.csv"} |->
                  CASE f = "app.py" -> AppPy(key)
                    [] f = "training.csv" ->
                         [columns |-> <<"feature1", "feature2", "label">>,
                          rows |-> << <<Num(10), Num(1), Num(0)>>,
                                      <<Num(20), Num(2), Num(10)>>,
                                      <<Num(30), Num(3), Num(0)>> >>]]

\* rmtree, makedirs, then the writes: whatever was there is gone
generate_assets(key) == [exists |-> TRUE, files |-> BaselineFiles(key)]

-----------------------------------------------------------------------------
(* check_step_truth *)

Pass(detail) == [ok |-> TRUE, detail |-> detail]

Fail(detail) == [ok |-> FALSE, detail |-> detail]

\* the except clause returning a passing verdict
CheckErrorPassed == Pass("check error")

\* except Exception as e: return False, f"check error: {e}"
CheckError == Fail("check error")

\* "KEY=" in env and len(env.split("KEY=")[1].strip()) > 0
HasEnvKey(env, name) ==
    /\ Contains(env, <<name, "=">>)
    /\ Len(Strip(SplitSecond(env, <<name, "=">>))) > 0

\* the scenario specific inspection at the failing step; open() and the
\* parsers raise when the file is not there, which the except clause turns
\* into a failing verdict
TruthCheck(dir, s_type) ==
    CASE s_type = "missing_dependency" ->
           IF ~FileExists(dir, "requirements.txt") \/ ~FileExists(dir, "model.py")
           THEN CheckError
           ELSE LET req  == dir.files["requirements.txt"]
                    code == dir.files["model.py"]
                    imports_numpy  == Contains(code, <<"numpy">>)
                    declared_numpy == Contains(req, <<"numpy">>)
                IN  [ok     |-> declared_numpy \/ ~imports_numpy,
                     detail |-> IF declared_numpy THEN "numpy present"
                                ELSE "numpy missing"]
      [] s_type = "dockerfile_syntax" ->
           IF ~FileExists(dir, "Dockerfile") THEN CheckError
           ELSE LET invalid == Contains(dir.files["Dockerfile"], <<"COPY", ".">>)
                IN  [ok     |-> ~invalid,
                     detail |-> IF ~invalid THEN "Dockerfile COPY valid"
                                ELSE "Invalid COPY directive"]
      [] s_type = "env_missing" ->
           IF ~FileExists(dir, ".env") THEN CheckError
           ELSE LET env == dir.files[".env"]
                    ok  == /\ HasEnvKey(env, "DB_USER")
                           /\ HasEnvKey(env, "DB_PASS")
                           /\ HasEnvKey(env, "DB_HOST")
                IN  [ok     |-> ok,
                     detail |-> IF ok THEN "env ok" ELSE "env keys missing"]
      [] s_type = "null_values" ->
           IF ~Loads(dir, "data.csv") THEN CheckError
           ELSE LET ok == ~AnyNa(dir.files["data.csv"])
                IN  [ok     |-> ok,
                     detail |-> IF ok THEN "no NaNs" ELSE "NaNs present"]
      [] s_type = "high_latency" ->
           IF ~Loads(dir, "endpoint_profile.json") THEN CheckError
           ELSE LET prof == dir.files["endpoint_profile.json"]
                    p90  == IF "p90_ms" \in DOMAIN prof THEN prof["p90_ms"]
                            ELSE 9999
                IN  [ok     |-> p90 <= 1000,
                     detail |-> IF "p90_ms" \in DOMAIN prof
                                THEN "p90=" \o ToString(prof["p90_ms"]) \o "ms"
                                ELSE "p90=Nonems"]
      [] s_type = "public_bucket" ->
           IF ~Loads(dir, "iac.yaml") THEN CheckError
           ELSE LET policy == dir.files["iac.yaml"]
                    public_write == IF "public_write" \in DOMAIN policy
                                    THEN policy["public_write"] ELSE FALSE
                IN  [ok     |-> ~public_write,
                     detail |-> IF ~public_write THEN "public_write=false"
                                ELSE "public_write=true"]
      [] s_type = "memory_leak" ->
           IF ~FileExists(dir, "model.py") THEN CheckError
           ELSE LET leaking == Contains(dir.files["model.py"],
                                        <<"LEAK_DEMO", " ", "=", " ", "True">>)
                IN  [ok     |-> ~leaking,
                     detail |-> IF ~leaking THEN "no leak" ELSE "leak flag true"]
      [] s_type = "schema_drift" ->
           IF ~Loads(dir, "training.csv") THEN CheckError
           ELSE LET ok == HasColumn(dir.files["training.csv"], "target")
                IN  [ok     |-> ok,
                     detail |-> IF ok THEN "target present" ELSE "target missing"]

BeforeFailStep(step_idx, fail_step) == step_idx < fail_step

\* the stage index taken as 0-based
check_step_truthMut(dir, scenario_key, step_idx) ==
    LET sc        == SCENARIOS[scenario_key]
        fail_step == sc.failure_step
    IN  IF BeforeFailStep(step_idx + 1, fail_step) THEN Pass("OK")
        ELSE IF step_idx + 1 = fail_step THEN TruthCheck(dir, sc.type)
        ELSE Pass("OK")

\* the failing stage passes once a fix has been attempted, whatever the
\* artifacts hold
check_step_truthAttempts(dir, scenario_key, step_idx) ==
    LET sc        == SCENARIOS[scenario_key]
        fail_step == sc.failure_step
    IN  IF step_idx < fail_step THEN Pass("OK")
        ELSE IF step_idx = fail_step
        THEN IF debug_attempts > 0 THEN Pass("OK")
             ELSE TruthCheck(dir, sc.type)
        ELSE Pass("OK")

check_step_truth(dir, scenario_key, step_idx) ==
    LET sc        == SCENARIOS[scenario_key]
        fail_step == sc.failure_step
    IN  IF BeforeFailStep(step_idx, fail_step) THEN Pass("OK")
        ELSE IF step_idx = fail_step THEN TruthCheck(dir, sc.type)
        ELSE Pass("OK")

-----------------------------------------------------------------------------
(* apply_mitigation: returns ok, the message and the directory it leaves *)

MitigationError(dir) == [ok |-> FALSE, msg |-> "mitigation error", dir |-> dir]

\* the DB_PASS line left out
PlaceholderEnvMut ==
    <<"DB_USER", "=", "demo", "\n", "DB_HOST", "=", "localhost", "\n">>

PlaceholderEnv ==
    <<"DB_USER", "=", "demo", "\n",
      "DB_PASS", "=", "demo123", "\n",
      "DB_HOST", "=", "localhost", "\n">>

Repair(dir, s_type) ==
    CASE s_type = "missing_dependency" ->
           \* open(path, "a") creates the file, but not the directory
           IF ~dir.exists THEN dir
           ELSE WriteFile(dir, "requirements.txt",
                          (IF FileExists(dir, "requirements.txt")
                           THEN dir.files["requirements.txt"] ELSE <<>>)
                          \o <<"\n", "numpy", "==", "1.26.4", "\n">>)
      [] s_type = "dockerfile_syntax" ->
           WriteFile(dir, "Dockerfile",
                     Replace(dir.files["Dockerfile"], <<"COPY", ".">>,
                             <<"COPY", " ", ".", " ", "/app", "\n">>))
      [] s_type = "env_missing" ->
           WriteFile(dir, ".env", PlaceholderEnv)
      [] s_type = "null_values" ->
           WriteFile(dir, "data.csv", FillColumns(dir.files["data.csv"]))
      [] s_type = "high_latency" ->
           LET prof == dir.files["endpoint_profile.json"]
           IN  WriteFile(dir, "endpoint_profile.json",
                         [k \in (DOMAIN prof) \cup {"p90_ms"} |->
                            IF k = "p90_ms" THEN 400 ELSE prof[k]])
      [] s_type = "public_bucket" ->
           LET policy == dir.files["iac.yaml"]
           IN  WriteFile(dir, "iac.yaml",
                         [k \in (DOMAIN policy) \cup {"public_write"} |->
                            IF k = "public_write" THEN FALSE ELSE policy[k]])
      [] s_type = "memory_leak" ->
           WriteFile(dir, "model.py",
                     Replace(dir.files["model.py"],
                             <<"LEAK_DEMO", " ", "=", " ", "True">>,
                             <<"LEAK_DEMO", " ", "=", " ", "False", "\n",
                               "#", " ", "fixed">>))
      [] s_type = "schema_drift" ->
           LET df == dir.files["training.csv"]
           IN  WriteFile(dir, "training.csv",
                   IF HasColumn(df, "label") /\ ~HasColumn(df, "target")
                   THEN AddColumn(df, "target", Column(df, ColIndex(df, "label")))
                   ELSE IF ~HasColumn(df, "target")
                   THEN AddColumn(df, "target",
                                  [r \in 1..Len(df.rows) |-> Num(0)])
                   ELSE df)

\* the file the repair reads before it writes; none for the two repairs
\* that only write
RepairReads(s_type) ==
    CASE s_type = "missing_dependency" -> {}
      [] s_type = "dockerfile_syntax"  -> {"Dockerfile"}
      [] s_type = "env_missing"        -> {}
      [] s_type = "null_values"        -> {"data.csv"}
      [] s_type = "high_latency"       -> {"endpoint_profile.json"}
      [] s_type = "public_bucket"      -> {"iac.yaml"}
      [] s_type = "memory_leak"        -> {"model.py"}
      [] s_type = "schema_drift"       -> {"training.csv"}

\* io_error: the environment makes a read or write of the repair raise
apply_mitigation(dir, scenario_key, io_error) ==
    LET sc     == SCENARIOS[scenario_key]
        s_type == sc.type
    IN  IF \/ io_error
           \/ \E f \in RepairReads(s_type) : ~Loads(dir, f)
           \/ (s_type = "missing_dependency" /\ ~dir.exists)
        THEN MitigationError(dir)
        ELSE [ok |-> TRUE, msg |-> sc.mitigation_fix, dir |-> Repair(dir, s_type)]

-----------------------------------------------------------------------------
(* Session state *)

NoFailure == [step |-> 0, detail |-> "None"]

NoVerdict == [scenario |-> "None", step |-> 0, ok |-> TRUE, detail |-> "None",
              snap |-> NoDir]

NoCheck == [set |-> FALSE, snap |-> NoDir, ok |-> TRUE, detail |-> "None"]

NoRun == [set |-> FALSE, snap |-> NoDir, failure |-> NoFailure,
          completed |-> FALSE, logs |-> <<>>]

NoHistory == [ref_check  |-> NoCheck,
              ref_run    |-> NoRun,
              repeated   |-> [attempts |-> FALSE, cloud |-> FALSE],
              mitigated  |-> "None",
              reselected |-> "no",
              returned   |-> FALSE,
              faults     |-> 0]

\* the context in which the reference check and the reference run are taken:
\* the provider and the attempt counter of a fresh session (lines 39-50)
ReferenceContext == cloud = "AWS" /\ debug_attempts = 0

\* the log line built from the header of the stage, which names the service
\* of the selected provider
SuccessLineHeader(step, detail) ==
    [mark |-> "ok", step |-> step, detail |-> detail, service |-> cloud]

\* "✅ {step}: OK ({detail})"
SuccessLine(step, detail) == [mark |-> "ok", step |-> step, detail |-> detail]

\* "❌ {step}: {detail}"
FailLine(step, detail) == [mark |-> "failed", step |-> step, detail |-> detail]

\* init_state, followed by the first execution of the script: the radio
\* shows the first scenario and its assets are generated
Init ==
    /\ cloud = "AWS"
    /\ demo_key = FirstScenario
    /\ debug_attempts = 0
    /\ last_run_logs = <<>>
    /\ last_failure = NoFailure
    /\ pipeline_completed = FALSE
    /\ running = FALSE
    /\ fs = [k \in ScenarioKeys |->
               IF k = FirstScenario THEN generate_assets(k) ELSE NoDir]
    /\ pc = "idle"
    /\ idx = 0
    /\ verdict = NoVerdict
    /\ evaluated = <<>>
    /\ event = "init"
    /\ trigger = "none"
    /\ selections = 0
    /\ hist = NoHistory

-----------------------------------------------------------------------------
(* The script, lines 433-525 *)

\* line 456 when no run is requested
AssetsStale(files, key) == (~files[key].exists) \/ (last_run_logs = <<>>)

\* the assets never generated by the script
RefreshAssetsNever(files, key, run_btn) == files

\* the assets regenerated only when stale, a requested run not counting
RefreshAssetsStaleOnly(files, key, run_btn) ==
    IF AssetsStale(files, key)
    THEN [files EXCEPT ![AssetsDir(key)] = generate_assets(key)]
    ELSE files

\* lines 456-457
RefreshAssets(files, key, run_btn) ==
    IF AssetsStale(files, key) \/ run_btn
    THEN [files EXCEPT ![AssetsDir(key)] = generate_assets(key)]
    ELSE files

\* the completion flag taken for the absence of a failure
NoFailureRecordedMut == pipeline_completed

NoFailureRecorded == last_failure = NoFailure

AttemptsExhaustedMut == debug_attempts >= MaxAttempts + 1

AttemptsExhausted == debug_attempts >= MaxAttempts

\* the run started without clearing the completion flag
StartRunKeepsCompleted ==
    /\ fs' = RefreshAssets(fs, demo_key, TRUE)
    /\ running' = TRUE
    /\ last_run_logs' = <<>>
    /\ pipeline_completed' = pipeline_completed
    /\ last_failure' = NoFailure
    /\ pc' = "loop"
    /\ idx' = 1
    /\ evaluated' = <<>>

\* lines 462-466, entered with run_btn set
StartRun ==
    /\ fs' = RefreshAssets(fs, demo_key, TRUE)
    /\ running' = TRUE
    /\ last_run_logs' = <<>>
    /\ pipeline_completed' = FALSE
    /\ last_failure' = NoFailure
    /\ pc' = "loop"
    /\ idx' = 1
    /\ evaluated' = <<>>

\* the provider selectbox changes: the script runs with no button pressed
SelectProvider(c) ==
    /\ pc = "idle"
    /\ c # cloud
    /\ cloud' = c
    /\ fs' = RefreshAssets(fs, demo_key, FALSE)
    /\ event' = "selectProvider"
    /\ UNCHANGED <<demo_key, debug_attempts, last_run_logs, last_failure,
                   pipeline_completed, running, pc, idx, verdict, evaluated,
                   trigger, selections, hist>>

\* the scenario radio changes: the script runs with no button pressed
SelectScenario(k) ==
    /\ pc = "idle"
    /\ k # demo_key
    /\ selections < MaxSelections
    /\ selections' = selections + 1
    /\ demo_key' = k
    /\ fs' = RefreshAssets(fs, k, FALSE)
    /\ event' = "selectScenario"
    /\ hist' = [hist EXCEPT !.reselected = "yes",
                            !.returned = (k = hist.mitigated),
                            !.ref_check = NoCheck,
                            !.ref_run = NoRun,
                            !.repeated = [attempts |-> FALSE, cloud |-> FALSE]]
    /\ UNCHANGED <<cloud, debug_attempts, last_run_logs, last_failure,
                   pipeline_completed, running, pc, idx, verdict, evaluated,
                   trigger>>

\* the Run button
RunPipeline ==
    /\ pc = "idle"
    /\ StartRun
    /\ event' = "run"
    /\ trigger' = "run"
    /\ hist' = [hist EXCEPT !.reselected = IF @ = "ran" THEN "no" ELSE @]
    /\ UNCHANGED <<cloud, demo_key, debug_attempts, verdict, selections>>

\* the counter incremented whatever the Mitigator returned
AttemptsAfterMut(ok, attempts) == attempts + 1

\* lines 445-446
AttemptsAfter(ok, attempts) == IF ok THEN attempts + 1 ELSE attempts

\* the Apply Fix button, lines 438-451 and, when no run follows, 456-457
ApplyFix(io_error) ==
    /\ pc = "idle"
    /\ IF NoFailureRecorded
       THEN /\ event' = "fixNoFailure"
            /\ fs' = RefreshAssets(fs, demo_key, FALSE)
            /\ UNCHANGED <<debug_attempts, pc, hist>>
       ELSE IF AttemptsExhausted
       THEN /\ event' = "fixExhausted"
            /\ fs' = RefreshAssets(fs, demo_key, FALSE)
            /\ UNCHANGED <<debug_attempts, pc, hist>>
       ELSE LET m == apply_mitigation(fs[AssetsDir(demo_key)], demo_key, io_error)
                mitigated == [fs EXCEPT ![AssetsDir(demo_key)] = m.dir]
            IN  /\ debug_attempts' = AttemptsAfter(m.ok, debug_attempts)
                /\ IF m.ok
                   THEN /\ fs' = mitigated
                        /\ pc' = "rerun"
                        /\ event' = "fixApplied"
                        /\ hist' = [hist EXCEPT !.mitigated = IF @ = "None" THEN demo_key
                                                         ELSE @]
                   ELSE /\ fs' = RefreshAssets(mitigated, demo_key, FALSE)
                        /\ event' = "fixError"
                        /\ UNCHANGED <<pc, hist>>
    /\ UNCHANGED <<cloud, demo_key, last_run_logs, last_failure,
                   pipeline_completed, running, idx, verdict, evaluated,
                   trigger, selections>>

\* run_btn = True after a successful fix: lines 456-466 of the same execution
RerunAfterFix ==
    /\ pc = "rerun"
    /\ StartRun
    /\ event' = "rerun"
    /\ trigger' = "fix"
    /\ hist' = [hist EXCEPT !.reselected = IF @ = "ran" THEN "no" ELSE @]
    /\ UNCHANGED <<cloud, demo_key, debug_attempts, verdict, selections>>

\* the loop left only by break
LoopEndsOnFailure(ok, i) == ~ok

\* the loop stops without break
LoopEndsMut(ok, i) == i = NumSteps

\* the loop is left by break on a failing verdict or after the last stage
LoopEnds(ok, i) == (~ok) \/ i = NumSteps

\* one iteration of the stage loop, lines 483-519, and lines 522-525 when
\* the loop is left
StageStep ==
    /\ pc = "loop"
    /\ LET v == check_step_truth(fs[AssetsDir(demo_key)], demo_key, idx)
           failure == IF v.ok THEN last_failure
                      ELSE [step |-> idx, detail |-> v.detail]
           logs == Append(last_run_logs,
                          IF v.ok THEN SuccessLine(idx, v.detail)
                          ELSE FailLine(idx, v.detail))
           ends == LoopEnds(v.ok, idx)
           snap == fs[AssetsDir(demo_key)]
           at_fail == idx = SCENARIOS[demo_key].failure_step
           same_check == hist.ref_check.set /\ hist.ref_check.snap = snap
           same_run == hist.ref_run.set /\ hist.ref_run.snap = snap
       IN  /\ verdict' = [scenario |-> demo_key, step |-> idx, ok |-> v.ok,
                          detail |-> v.detail, snap |-> fs[AssetsDir(demo_key)]]
           /\ evaluated' = Append(evaluated, idx)
           /\ last_run_logs' = logs
           /\ last_failure' = failure
           /\ hist' = [hist EXCEPT
                  !.ref_check =
                      IF at_fail /\ ReferenceContext
                      THEN [set |-> TRUE, snap |-> snap, ok |-> v.ok,
                            detail |-> v.detail]
                      ELSE @,
                  !.ref_run =
                      IF ends /\ ReferenceContext
                      THEN [set |-> TRUE, snap |-> snap, failure |-> failure,
                            completed |-> (failure = NoFailure \/ pipeline_completed),
                            logs |-> logs]
                      ELSE @,
                  !.repeated =
                      [attempts |-> at_fail /\ same_check /\ debug_attempts > 0,
                       cloud    |-> ends /\ same_run /\ cloud # "AWS"],
                  !.reselected = IF ends /\ @ = "yes" THEN "ran" ELSE @]
           /\ IF ends
              THEN /\ pc' = "idle"
                   /\ pipeline_completed' = IF failure = NoFailure THEN TRUE
                                            ELSE pipeline_completed
                   /\ running' = FALSE
                   /\ UNCHANGED idx
              ELSE /\ idx' = idx + 1
                   /\ running' = (v.ok /\ running)
                   /\ UNCHANGED <<pc, pipeline_completed>>
    /\ event' = "stage"
    /\ UNCHANGED <<cloud, demo_key, debug_attempts, fs, trigger, selections>>

Next ==
    \/ \E c \in CLOUDS : SelectProvider(c)
    \/ \E k \in ScenarioKeys : SelectScenario(k)
    \/ RunPipeline
    \/ \E io_error \in BOOLEAN : ApplyFix(io_error)
    \/ RerunAfterFix
    \/ StageStep

Spec == Init /\ [][Next]_vars

-----------------------------------------------------------------------------
(* The session with one scenario: the scenario is selected first and kept.  *)

\* a fresh session, or one in which a scenario has just been selected: Init,
\* or the state that SelectScenario(k) reaches from it
InitSelected ==
    /\ cloud = "AWS"
    /\ demo_key \in ScenarioKeys
    /\ debug_attempts = 0
    /\ last_run_logs = <<>>
    /\ last_failure = NoFailure
    /\ pipeline_completed = FALSE
    /\ running = FALSE
    /\ fs = [k \in ScenarioKeys |->
               IF k \in {FirstScenario, demo_key} THEN generate_assets(k)
               ELSE NoDir]
    /\ pc = "idle"
    /\ idx = 0
    /\ verdict = NoVerdict
    /\ evaluated = <<>>
    /\ event = IF demo_key = FirstScenario THEN "init" ELSE "selectScenario"
    /\ trigger = "none"
    /\ selections = IF demo_key = FirstScenario THEN 0 ELSE 1
    /\ hist = IF demo_key = FirstScenario THEN NoHistory
              ELSE [NoHistory EXCEPT !.reselected = "yes"]

NextSelected ==
    \/ \E c \in CLOUDS : SelectProvider(c)
    \/ RunPipeline
    \/ \E io_error \in BOOLEAN : ApplyFix(io_error)
    \/ RerunAfterFix
    \/ StageStep

\* the script, once an execution has started, runs on to its end: the stage
\* loop and the run requested by a successful fix are not left waiting
SpecLive ==
    /\ InitSelected
    /\ [][NextSelected]_vars
    /\ WF_vars(StageStep)
    /\ WF_vars(RerunAfterFix)

-----------------------------------------------------------------------------
(* The session in an environment that damages the assets: the directories  *)
(* live under tempfile.gettempdir() (line 435), where other processes can   *)
(* remove or truncate what the script wrote.                                *)

\* the files the check at the failing stage opens, lines 292-334
CheckReads(s_type) ==
    CASE s_type = "missing_dependency" -> {"requirements.txt", "model.py"}
      [] s_type = "dockerfile_syntax"  -> {"Dockerfile"}
      [] s_type = "env_missing"        -> {".env"}
      [] s_type = "null_values"        -> {"data.csv"}
      [] s_type = "high_latency"       -> {"endpoint_profile.json"}
      [] s_type = "public_bucket"      -> {"iac.yaml"}
      [] s_type = "memory_leak"        -> {"model.py"}
      [] s_type = "schema_drift"       -> {"training.csv"}

DamageKinds == {"unlink", "truncate", "rmtree"}

Damaged(dir, f, kind) ==
    CASE kind = "unlink" ->
           [exists |-> TRUE,
            files  |-> [g \in (DOMAIN dir.files) \ {f} |-> dir.files[g]]]
      [] kind = "truncate" -> WriteFile(dir, f, EmptyFile)
      [] kind = "rmtree" -> NoDir

\* a file that the check of the selected scenario reads is removed or
\* truncated, or the directory is removed, after the run has generated the
\* assets and before the failing stage is checked
Fault(f, kind) ==
    /\ pc = "loop"
    /\ idx <= SCENARIOS[demo_key].failure_step
    /\ hist.faults < MaxFaults
    /\ f \in CheckReads(SCENARIOS[demo_key].type)
    /\ FileExists(fs[AssetsDir(demo_key)], f)
    /\ fs' = [fs EXCEPT ![AssetsDir(demo_key)] = Damaged(@, f, kind)]
    /\ hist' = [hist EXCEPT !.faults = @ + 1]
    /\ event' = "fault"
    /\ UNCHANGED <<cloud, demo_key, debug_attempts, last_run_logs,
                   last_failure, pipeline_completed, running, pc, idx,
                   verdict, evaluated, trigger, selections>>

NextFault ==
    \/ \E c \in CLOUDS : SelectProvider(c)
    \/ RunPipeline
    \/ \E io_error \in BOOLEAN : ApplyFix(io_error)
    \/ RerunAfterFix
    \/ StageStep
    \/ \E f \in Structured \cup {"requirements.txt", "model.py", "Dockerfile",
                                  ".env"},
          kind \in DamageKinds : Fault(f, kind)

SpecFault == InitSelected /\ [][NextFault]_vars

-----------------------------------------------------------------------------
(* The Verifier and the Mitigator on their own: the directory of the      *)
(* scenario starts in any of a set of artifact states, and the functions   *)
(* are applied to it in any order.                                         *)

\* the directory with one file put in place of the generated one
WithFile(key, f, content) == WriteFile(generate_assets(key), f, content)

\* the directory with only the common app.py left
OnlyAppPy(key) == [exists |-> TRUE, files |-> [f \in {"app.py"} |-> AppPy(key)]]

EmptyDir == [exists |-> TRUE, files |-> NoFiles]

Variants(key) ==
    LET s_type == SCENARIOS[key].type
    IN  CASE s_type = "missing_dependency" ->
               {WithFile(key, "requirements.txt", <<"pandas", "==", "2.2.2", "\n">>),
                WithFile(key, "requirements.txt", <<>>),
                WithFile(key, "model.py", <<"DEF_FLAG", "=", "1", "\n">>)}
          [] s_type = "dockerfile_syntax" ->
               {WithFile(key, "Dockerfile",
                         <<"COPY", ".", "\n", "COPY", ".", "\n">>),
                WithFile(key, "Dockerfile", <<"FROM", " ", "scratch", "\n">>)}
          [] s_type = "env_missing" ->
               {WithFile(key, ".env", <<>>),
                WithFile(key, ".env",
                         <<"DB_USER", "=", "u", "\n", "DB_PASS", "=", "\n",
                           "DB_HOST", "=", "h", "\n">>)}
          [] s_type = "null_values" ->
               {WithFile(key, "data.csv",
                         [columns |-> <<"amount", "merchant">>,
                          rows |-> << <<NaN, NaN>>, <<NaN, Str("b")>> >>]),
                WithFile(key, "data.csv",
                         [columns |-> <<"amount", "merchant">>,
                          rows |-> << <<Num(10), Str("a")>> >>]),
                WithFile(key, "data.csv", EmptyFile)}
          [] s_type = "high_latency" ->
               {WithFile(key, "endpoint_profile.json",
                         [k \in {"notes"} |-> 0]),
                WithFile(key, "endpoint_profile.json",
                         [k \in {"p90_ms", "notes"} |->
                            IF k = "p90_ms" THEN 1000 ELSE 0]),
                WithFile(key, "endpoint_profile.json",
                         [k \in {"p90_ms", "notes"} |->
                            IF k = "p90_ms" THEN 1001 ELSE 0]),
                WithFile(key, "endpoint_profile.json", EmptyFile)}
          [] s_type = "public_bucket" ->
               {WithFile(key, "iac.yaml", [k \in {"bucket"} |-> FALSE]),
                WithFile(key, "iac.yaml", EmptyFile)}
          [] s_type = "memory_leak" ->
               {WithFile(key, "model.py",
                         <<"LEAK_DEMO", "=", "True", "\n">>),
                WithFile(key, "model.py", <<>>)}
          [] s_type = "schema_drift" ->
               {WithFile(key, "training.csv",
                         [columns |-> <<"feature1">>,
                          rows |-> << <<Num(10)>>, <<Num(20)>> >>]),
                WithFile(key, "training.csv",
                         [columns |-> <<"target">>,
                          rows |-> << <<Num(10)>> >>]),
                WithFile(key, "training.csv", EmptyFile)}

Snapshots(key) ==
    {NoDir, EmptyDir, OnlyAppPy(key), generate_assets(key)} \cup Variants(key)

InitPure ==
    /\ cloud = "AWS"
    /\ demo_key \in ScenarioKeys
    /\ debug_attempts = 0
    /\ last_run_logs = <<>>
    /\ last_failure = NoFailure
    /\ pipeline_completed = FALSE
    /\ running = FALSE
    /\ \E snap \in Snapshots(demo_key) :
          fs = [k \in ScenarioKeys |-> IF k = demo_key THEN snap ELSE NoDir]
    /\ pc = "pure"
    /\ idx = 0
    /\ verdict = NoVerdict
    /\ evaluated = <<>>
    /\ event = "init"
    /\ trigger = "none"
    /\ selections = 0
    /\ hist = NoHistory

\* check_step_truth(assets_dir, demo_key, i)
PureCheck(i) ==
    /\ pc = "pure"
    /\ LET v == check_step_truth(fs[AssetsDir(demo_key)], demo_key, i)
       IN  verdict' = [scenario |-> demo_key, step |-> i, ok |-> v.ok,
                       detail |-> v.detail, snap |-> fs[AssetsDir(demo_key)]]
    /\ idx' = i
    /\ event' = "check"
    /\ UNCHANGED <<cloud, demo_key, debug_attempts, last_run_logs,
                   last_failure, pipeline_completed, running, fs, pc,
                   evaluated, trigger, selections, hist>>

\* apply_mitigation(assets_dir, demo_key); debug_attempts counts the calls
PureMitigate(io_error) ==
    /\ pc = "pure"
    /\ debug_attempts < MaxPureMitigations
    /\ LET m == apply_mitigation(fs[AssetsDir(demo_key)], demo_key, io_error)
       IN  /\ fs' = [fs EXCEPT ![AssetsDir(demo_key)] = m.dir]
           /\ event' = IF m.ok THEN "mitigated" ELSE "mitigationError"
    /\ debug_attempts' = debug_attempts + 1
    /\ UNCHANGED <<cloud, demo_key, last_run_logs, last_failure,
                   pipeline_completed, running, pc, idx, verdict, evaluated,
                   trigger, selections, hist>>

\* generate_assets(assets_dir, demo_key)
PureGenerate ==
    /\ pc = "pure"
    /\ fs' = [fs EXCEPT ![AssetsDir(demo_key)] = generate_assets(demo_key)]
    /\ event' = "generated"
    /\ UNCHANGED <<cloud, demo_key, debug_attempts, last_run_logs,
                   last_failure, pipeline_completed, running, pc, idx,
                   verdict, evaluated, trigger, selections, hist>>

NextPure ==
    \/ \E i \in STEPS : PureCheck(i)
    \/ \E io_error \in BOOLEAN : PureMitigate(io_error)
    \/ PureGenerate

SpecPure == InitPure /\ [][NextPure]_vars

-----------------------------------------------------------------------------
(* The Verifier on the configuration file of the env_missing scenario: the  *)
(* file holds any sequence of a few "KEY=value" and comment lines.          *)

EnvKeys == {"DB_USER", "DB_PASS", "DB_HOST"}

\* "KEY=\n", "KEY=x\n" and a comment line
EnvLines ==
    {<<k, "=">> \o v \o <<"\n">> : k \in EnvKeys, v \in {<<>>, <<"x">>}}
    \cup {<<"#", " ", "DB_PASS", " ", "missing", "\n">>}

\* the files of at most n of these lines
RECURSIVE EnvTexts(_)
EnvTexts(n) ==
    IF n = 0 THEN {<<>>}
    ELSE LET shorter == EnvTexts(n - 1)
         IN  shorter \cup {l \o t : l \in EnvLines, t \in shorter}

EnvScenario == CHOOSE k \in ScenarioKeys : SCENARIOS[k].type = "env_missing"

InitEnv ==
    /\ cloud = "AWS"
    /\ demo_key = EnvScenario
    /\ debug_attempts = 0
    /\ last_run_logs = <<>>
    /\ last_failure = NoFailure
    /\ pipeline_completed = FALSE
    /\ running = FALSE
    /\ \E t \in EnvTexts(MaxEnvLines) :
          fs = [k \in ScenarioKeys |->
                  IF k = demo_key THEN WithFile(k, ".env", t) ELSE NoDir]
    /\ pc = "pure"
    /\ idx = 0
    /\ verdict = NoVerdict
    /\ evaluated = <<>>
    /\ event = "init"
    /\ trigger = "none"
    /\ selections = 0
    /\ hist = NoHistory

NextEnv == \E i \in STEPS : PureCheck(i)

SpecEnv == InitEnv /\ [][NextEnv]_vars

-----------------------------------------------------------------------------
(* Properties *)

FixEvents == {"fixNoFailure", "fixExhausted", "fixApplied", "fixError"}

FailStep(key) == SCENARIOS[key].failure_step

RunEnded == pc = "idle" /\ event = "stage"

\* C1: a run requested by a successful applyFix passes all 20 stages and
\* ends Completed with no failure record.
C1_RunAfterFixCompletes ==
    (RunEnded /\ trigger = "fix") =>
        /\ pipeline_completed
        /\ last_failure = NoFailure
        /\ Len(last_run_logs) = NumSteps

\* C2: the step that starts a run (from the Run button or after a
\* successful applyFix) leaves every asset directory as it was.
C2_RunKeepsSnapshot ==
    [][(pc # "loop" /\ pc' = "loop") => fs' = fs]_vars

\* C3: the attempt counter is an integer in 0..2 in every reachable state.
C3_AttemptsBounded == debug_attempts \in 0..MaxAttempts

C3_Witness == debug_attempts = MaxAttempts /\ event = "fixApplied"

\* C4: a step that changes the selected scenario leaves the attempt counter
\* at 0, the log empty, no failure record and the completion flag false.
C4_SelectionResets ==
    [][demo_key' # demo_key =>
          /\ debug_attempts' = 0
          /\ last_run_logs' = <<>>
          /\ last_failure' = NoFailure
          /\ ~pipeline_completed']_vars

\* C5: an applyFix step taken with a failure recorded and attempts = 2 does
\* not call the Mitigator, leaves the asset directories and the counter
\* unchanged and starts no run.
C5_ExhaustedFixRejected ==
    [][(pc = "idle" /\ debug_attempts = MaxAttempts /\ event' \in FixEvents) =>
          /\ event' \in {"fixExhausted", "fixNoFailure"}
          /\ fs' = fs
          /\ debug_attempts' = MaxAttempts
          /\ pc' = "idle"
          /\ ~running']_vars

C5_Witness ==
    /\ event = "fixExhausted"
    /\ debug_attempts = MaxAttempts
    /\ last_failure # NoFailure
    /\ pc = "idle"

\* C6: an applyFix step taken with no failure recorded reports the
\* no-failure condition: the Mitigator is not called, the asset
\* directories, the counter, the log and the completion flag are unchanged
\* and no run is started.
C6_NoFailureFixRejected ==
    [][(pc = "idle" /\ last_failure = NoFailure /\ event' \in FixEvents) =>
          /\ event' = "fixNoFailure"
          /\ fs' = fs
          /\ debug_attempts' = debug_attempts
          /\ last_run_logs' = last_run_logs
          /\ pipeline_completed' = pipeline_completed
          /\ pc' = "idle"
          /\ ~running']_vars

C6_Witness ==
    /\ event = "fixNoFailure"
    /\ last_failure = NoFailure
    /\ pipeline_completed
    /\ pc = "idle"

\* C7: every check_step_truth call at the failing stage of its scenario on
\* the freshly generated baseline of that scenario returns fail.
C7_BaselineFails ==
    (/\ verdict # NoVerdict
     /\ verdict.step = FailStep(verdict.scenario)
     /\ verdict.snap = generate_assets(verdict.scenario))
    => ~verdict.ok

MitigatedOnce(key) == apply_mitigation(generate_assets(key), key, FALSE).dir

MitigatedTwice(key) == apply_mitigation(MitigatedOnce(key), key, FALSE).dir

\* C8: check_step_truth at the failing stage passes on the baseline
\* mitigated once and on the baseline mitigated twice, for every scenario.
C8_MitigationSufficient ==
    (/\ verdict # NoVerdict
     /\ verdict.step = FailStep(verdict.scenario)
     /\ verdict.snap \in {MitigatedOnce(verdict.scenario),
                          MitigatedTwice(verdict.scenario)})
    => verdict.ok

C8_Witness ==
    /\ pc = "pure"
    /\ verdict.scenario = "Demo 1"
    /\ verdict.step = FailStep("Demo 1")
    /\ verdict.snap = MitigatedTwice("Demo 1")
    /\ verdict.snap # MitigatedOnce("Demo 1")
    /\ debug_attempts = 2
    /\ verdict.ok

\* C9: check_step_truth at a stage before the failing stage returns
\* (pass, "OK") whatever the asset directory holds.
C9_EarlierStagesPass ==
    (/\ verdict # NoVerdict
     /\ verdict.step < FailStep(verdict.scenario))
    => (verdict.ok /\ verdict.detail = "OK")

C9_Witness ==
    /\ pc = "pure"
    /\ verdict # NoVerdict
    /\ verdict.snap = NoDir
    /\ verdict.step = FailStep(verdict.scenario) - 1
    /\ verdict.ok

InOrder(seq) == \A i \in 1..Len(seq) : seq[i] = i

SuccessLines(logs, n) ==
    \A i \in 1..n : logs[i].mark = "ok" /\ logs[i].step = i

\* C10: stages are evaluated in increasing order from 1; a run that ended
\* Failed at stage k left k log lines (k-1 success lines in order, then the
\* failure line), the failure record holds k and the detail of the verdict,
\* and nothing above k was evaluated; a run with no failing stage left 20
\* success lines in order, the completion flag and no failure record.
C10_RunStopsAtFirstFailure ==
    /\ (pc = "loop") =>
          /\ InOrder(evaluated)
          /\ Len(evaluated) = idx - 1
          /\ Len(last_run_logs) = idx - 1
          /\ SuccessLines(last_run_logs, idx - 1)
          /\ last_failure = NoFailure
    /\ (pc = "idle" /\ evaluated # <<>>) =>
          LET k == Len(last_run_logs)
          IN  /\ InOrder(evaluated)
              /\ Len(evaluated) = k
              /\ verdict.step = k
              /\ IF last_failure # NoFailure
                 THEN /\ last_failure.step = k
                      /\ SuccessLines(last_run_logs, k - 1)
                      /\ last_run_logs[k] = FailLine(k, last_failure.detail)
                      /\ ~verdict.ok
                      /\ last_failure.detail = verdict.detail
                      /\ ~pipeline_completed
                 ELSE /\ k = NumSteps
                      /\ SuccessLines(last_run_logs, NumSteps)
                      /\ verdict.ok
                      /\ pipeline_completed
              /\ ~running

C10_Witness ==
    /\ RunEnded
    /\ last_failure # NoFailure
    /\ last_failure.step = 12
    /\ Len(last_run_logs) = 12
    /\ Len(evaluated) = 12

\* C11: the verdict at the failing stage depends on the artifact content
\* only: a check that sees the snapshot of the reference check of the
\* selected scenario (made with no attempt used, under the default provider)
\* returns the verdict of the reference check, whatever the attempt counter,
\* the log, the failure record and the provider are.
C11_VerdictFromContentOnly ==
    (/\ hist.ref_check.set
     /\ verdict.scenario = demo_key
     /\ verdict.step = FailStep(demo_key)
     /\ verdict.snap = hist.ref_check.snap) =>
        /\ verdict.ok = hist.ref_check.ok
        /\ verdict.detail = hist.ref_check.detail

\* the failing stage was checked again on the reference snapshot after an
\* attempt was counted, under another provider
C11_Witness ==
    /\ hist.repeated.attempts
    /\ event = "stage"
    /\ verdict.step = FailStep(demo_key)
    /\ verdict.snap = hist.ref_check.snap
    /\ ~verdict.ok
    /\ debug_attempts > 0
    /\ cloud # "AWS"

\* what the core keeps: everything of the session but the provider
Core == <<demo_key, debug_attempts, last_run_logs, last_failure,
          pipeline_completed, running, fs>>

\* C12: the provider does not influence the core. A change of the provider
\* leaves the scenario, the attempt counter, the log, the failure record, the
\* completion flag, the running flag and every snapshot as they were; and a
\* run that ends on the snapshot of the reference run of the selected
\* scenario (made under the default provider) ends with the failure record,
\* the terminal state and the log of the reference run, whatever the
\* provider is.
C12_ProviderNoInfluence ==
    /\ [][cloud' # cloud => UNCHANGED Core]_vars
    /\ [](/\ pc = "idle"
          /\ hist.ref_run.set
          /\ verdict.scenario = demo_key
          /\ verdict.snap = hist.ref_run.snap
          =>
          /\ last_failure = hist.ref_run.failure
          /\ pipeline_completed = hist.ref_run.completed
          /\ last_run_logs = hist.ref_run.logs)

\* a run under another provider has just ended Failed on the snapshot of
\* the reference run
C12_Witness ==
    /\ hist.repeated.cloud
    /\ RunEnded
    /\ cloud # "AWS"
    /\ verdict.snap = hist.ref_run.snap
    /\ last_failure # NoFailure
    /\ last_failure = hist.ref_run.failure

\* C13: after the scenario selection has changed to S, the Verifier calls of
\* the next run see the generated baseline of S, also when S was mitigated
\* earlier in the session.
C13_ReselectionSeesBaseline ==
    (pc = "loop" /\ hist.reselected = "yes") =>
        /\ fs[AssetsDir(demo_key)] = generate_assets(demo_key)
        /\ evaluated # <<>> =>
              /\ verdict.scenario = demo_key
              /\ verdict.snap = generate_assets(demo_key)

\* the scenario was mitigated, left and selected again, and the failing
\* stage of the first run since has been checked
C13_Witness ==
    /\ hist.reselected = "ran"
    /\ hist.returned
    /\ event = "stage"
    /\ verdict.scenario = demo_key
    /\ verdict.step = FailStep(demo_key)
    /\ verdict.snap = generate_assets(demo_key)
    /\ verdict.snap # MitigatedOnce(demo_key)
    /\ ~verdict.ok

\* the state of the Runner, from the flags of the session (lines 462-466,
\* 516-517, 522-525)
RunnerState ==
    IF running THEN "Running"
    ELSE IF pipeline_completed THEN "Completed"
    ELSE IF last_failure # NoFailure THEN "Failed"
    ELSE "Idle"

Terminal == {"Completed", "Failed"}

\* a step that leaves Completed or Failed with the selection unchanged
LeavesTerminal ==
    /\ RunnerState \in Terminal
    /\ demo_key' = demo_key
    /\ RunnerState' # RunnerState

\* the run that a successful applyFix requests, the attempt just counted
\* being within the budget
RestartedByFix ==
    /\ RunnerState = "Failed"
    /\ RunnerState' = "Running"
    /\ event = "fixApplied"
    /\ event' = "rerun"
    /\ debug_attempts <= MaxAttempts

\* C14 as stated: with the selection unchanged, the Runner leaves Completed
\* or Failed only from Failed to Running, by an applyFix call that succeeds
\* within the attempt budget.
C14_TerminalUntilFix ==
    [][LeavesTerminal => RestartedByFix]_vars

\* C14 amended: with the selection unchanged, the Runner leaves Completed or
\* Failed only to Running, either by an applyFix call that succeeds within
\* the attempt budget (from Failed) or by a runPipeline request (from
\* either).
C14_TerminalUntilFixOrRun ==
    [][LeavesTerminal =>
          \/ RestartedByFix
          \/ RunnerState' = "Running" /\ event' = "run"]_vars

\* the Runner is Running again after the second successful applyFix
C14_Witness ==
    /\ RunnerState = "Running"
    /\ event = "rerun"
    /\ trigger = "fix"
    /\ debug_attempts = MaxAttempts

\* an artifact that the check of the scenario reads is missing or cannot be
\* loaded
Unusable(dir, key) ==
    \E f \in CheckReads(SCENARIOS[key].type) : ~Loads(dir, f)

\* C15: a check at the failing stage that finds a needed artifact missing or
\* not loadable returns a failing verdict whose detail reports the error;
\* the run ends there, Failed, with the failure record of that stage and
\* detail; and every run that has ended is Completed or Failed.
C15_CheckErrorFailsRun ==
    /\ (/\ event = "stage"
        /\ verdict.scenario = demo_key
        /\ verdict.step = FailStep(demo_key)
        /\ Unusable(verdict.snap, demo_key)) =>
           /\ verdict = [scenario |-> demo_key, step |-> FailStep(demo_key),
                         ok |-> FALSE, detail |-> "check error",
                         snap |-> verdict.snap]
           /\ pc = "idle"
           /\ RunnerState = "Failed"
           /\ last_failure = [step |-> FailStep(demo_key),
                              detail |-> "check error"]
           /\ Len(last_run_logs) = FailStep(demo_key)
           /\ last_run_logs[FailStep(demo_key)] =
                  FailLine(FailStep(demo_key), "check error")
    /\ RunEnded => RunnerState \in Terminal

\* a run has ended Failed on a configuration file truncated to zero bytes
\* after the run had started
C15_Witness ==
    /\ RunEnded
    /\ hist.faults > 0
    /\ demo_key = "Demo 6"
    /\ FileExists(verdict.snap, "iac.yaml")
    /\ verdict.snap.files["iac.yaml"] = EmptyFile
    /\ verdict.detail = "check error"
    /\ RunnerState = "Failed"
    /\ last_failure.step = FailStep(demo_key)

\* C16: an applyFix call counts an attempt, by exactly 1, if and only if the
\* Mitigator returned ok, and the run is then requested; when the Mitigator
\* returned an error, the attempt counter, the failure record and the log
\* stay as they were and no run is started.
C16_AttemptCountedIffMitigated ==
    [][/\ event' = "fixApplied" =>
             /\ debug_attempts' = debug_attempts + 1
             /\ pc' = "rerun"
       /\ event' \in FixEvents \ {"fixApplied"} =>
             /\ debug_attempts' = debug_attempts
             /\ pc' = "idle"
       /\ event' = "fixError" =>
             /\ last_failure' = last_failure
             /\ last_run_logs' = last_run_logs
             /\ running' = running
             /\ ~running'
             /\ pipeline_completed' = pipeline_completed]_vars

\* the Mitigator has just returned an error to an applyFix call made after
\* one successful attempt
C16_Witness ==
    /\ event = "fixError"
    /\ debug_attempts = 1
    /\ last_failure # NoFailure
    /\ pc = "idle"

\* the lines of a text, without their line ends
RECURSIVE LinesOf(_)
LinesOf(txt) ==
    IF txt = <<>> THEN {}
    ELSE LET p == FindFrom(txt, <<"\n">>, 1)
         IN  IF p = 0 THEN {txt}
             ELSE {SubSeq(txt, 1, p - 1)}
                  \cup LinesOf(SubSeq(txt, p + 1, Len(txt)))

\* some line of the text is "name=value" with a non-empty value
HasOwnValue(txt, name) ==
    \E l \in LinesOf(txt) :
        /\ Len(l) >= 3
        /\ l[1] = name
        /\ l[2] = "="
        /\ Strip(SubSeq(l, 3, Len(l))) # <<>>

\* C17: for the env_missing scenario and every configuration file of the
\* bounded set, the check at the failing stage passes if and only if each
\* of DB_USER, DB_PASS and DB_HOST has a line of its own with a non-empty
\* value.
C17_EnvPassesIffKeysSet ==
    (/\ event = "check"
     /\ SCENARIOS[demo_key].type = "env_missing"
     /\ verdict.step = FailStep(demo_key)
     /\ FileExists(verdict.snap, ".env")) =>
        (verdict.ok <=>
            \A name \in EnvKeys : HasOwnValue(verdict.snap.files[".env"], name))

\* C18: the Mitigator is idempotent on the snapshots reached from the
\* baseline: applied to the baseline mitigated once or twice, it leaves every
\* artifact as it is.
C18_MitigationIdempotent ==
    [][(/\ event' = "mitigated"
        /\ fs[AssetsDir(demo_key)] \in {MitigatedOnce(demo_key),
                                        MitigatedTwice(demo_key)})
       => fs' = fs]_vars

\* the directory holds every file that generate_assets writes for the
\* scenario
Generated(dir, key) ==
    /\ dir.exists
    /\ DOMAIN generate_assets(key).files \subseteq DOMAIN dir.files

\* C19: the ordering discipline. Whenever the Verifier is about to be called
\* in a run, and whenever it has been called, the snapshot of the selected
\* scenario has been generated; and between the start and the end of a run
\* every step is a stage evaluation that leaves all snapshots unchanged, so
\* the Mitigator writes only between runs.
C19_OrderingDiscipline ==
    /\ [](pc = "loop" =>
            /\ Generated(fs[AssetsDir(demo_key)], demo_key)
            /\ evaluated # <<>> =>
                  /\ verdict.scenario = demo_key
                  /\ verdict.snap = fs[AssetsDir(demo_key)])
    /\ [][pc = "loop" => (event' = "stage" /\ fs' = fs)]_vars
    /\ [][event' \in FixEvents => (pc = "idle" /\ pc' # "loop")]_vars

\* the run requested by a successful applyFix is between two stage
\* evaluations
C19_Witness ==
    /\ pc = "loop"
    /\ trigger = "fix"
    /\ event = "stage"
    /\ evaluated # <<>>
    /\ Generated(verdict.snap, demo_key)
    /\ hist.mitigated = demo_key

\* a run has been requested or is under way
RunRequested == pc \in {"rerun", "loop"}

\* C20: every requested run terminates: it evaluates at most 20 stages, and
\* it ends with the Runner Completed or Failed and the running flag false.
C20_RunTerminates ==
    /\ [](Len(evaluated) <= NumSteps /\ idx <= NumSteps)
    /\ [](RunEnded => (RunnerState \in Terminal /\ ~running))
    /\ RunRequested ~> (RunEnded /\ RunnerState \in Terminal /\ ~running)

\* a run has ended Completed after all 20 stages
C20_Witness ==
    /\ RunEnded
    /\ Len(evaluated) = NumSteps
    /\ RunnerState = "Completed"
    /\ ~running

\* a run has ended and no run has begun since
AfterRun == pc # "loop" /\ evaluated # <<>>

\* C21: outside the stage loop the completion flag and a failure record are
\* never both set; before the first run neither is set; and from the end of
\* a run until the next run begins exactly one of them is set, whatever
\* scenario and provider are selected in between.
C21_CompletedXorFailed ==
    /\ pc # "loop" => ~(pipeline_completed /\ last_failure # NoFailure)
    /\ (pc # "loop" /\ evaluated = <<>>) =>
          (~pipeline_completed /\ last_failure = NoFailure)
    /\ AfterRun => (pipeline_completed <=> last_failure = NoFailure)

\* another scenario has just been selected after a run that ended Failed,
\* and the failure record of that run is the one flag set
C21_Witness ==
    /\ AfterRun
    /\ event = "selectScenario"
    /\ verdict.scenario # demo_key
    /\ last_failure # NoFailure
    /\ ~pipeline_completed
    /\ cloud # "AWS"

\* C22: applyFix calls the Mitigator only on a failure record that a run
\* of the selected scenario produced: when the Mitigator has just been
\* called (and an attempt counted or an error returned), the last failing
\* check, which wrote the failure record, was made on the selected scenario.
C22_FixOnlyOnOwnFailure ==
    event \in {"fixApplied", "fixError"} =>
        /\ verdict.scenario = demo_key
        /\ ~verdict.ok
        /\ last_failure = [step |-> verdict.step, detail |-> verdict.detail]

====
